---- MODULE Spec2Model ----
(***************************************************************************)
(* Model of the translation expander (expandTranslations), its batch       *)
(* processor (processDirectory) and the validator (validateDirectory).     *)
(*                                                                         *)
(* JavaScript strings that the code takes apart or builds (locale codes,   *)
(* language names) are sequences of one-character strings, so that         *)
(* split('-') and the template literal are computed, not assumed.  Field   *)
(* names are never inspected by the code and stay TLA+ strings.  A record  *)
(* is a function from its own field names to values; the order of keys is  *)
(* not modelled.                                                           *)
(***************************************************************************)
EXTENDS Integers, Sequences, FiniteSets, TLC

\* ---------------------------------------------------------------- bounds
MaxRecords == 2
MaxVariants == 2
MaxFiles == 2
MaxRuns == 3

\* ---------------------------------------------------------------- strings
en == <<"e", "n">>
enUS == <<"e", "n", "-", "U", "S">>
enGB == <<"e", "n", "-", "G", "B">>
valueOf == <<"v", "a", "l", "u", "e", "O", "f">>
toString == <<"t", "o", "S", "t", "r", "i", "n", "g">>
constructor == <<"c", "o", "n", "s", "t", "r", "u", "c", "t", "o", "r">>

\* The value undefined: a one-element sequence no string of characters equals.
Undefined == <<"undefined">>

\* String(undefined), as a template literal renders it.
UndefinedText == <<"u", "n", "d", "e", "f", "i", "n", "e", "d">>

\* `${x}` for a string or undefined.
TemplateText(x) == IF x = Undefined THEN UndefinedText ELSE x

\* Names every object inherits from Object.prototype (those the model's
\* inputs can name), as locale-code strings and as field names.
ObjectPrototypeCodes == {valueOf, toString, constructor}
ObjectPrototypeFields == {"valueOf", "toString", "constructor"}

\* s.split('-')[0]: the characters before the first '-', or all of s.
SplitFirst(s) ==
  LET hy == {i \in 1..Len(s) : s[i] = "-"}
  IN IF hy = {} THEN s
     ELSE SubSeq(s, 1, (CHOOSE i \in hy : \A j \in hy : i <= j) - 1)

\* ---------------------------------------------------------------- objects
\* A reference held in baseTranslations[baseCode]: a record of the input
\* array (by position), an inherited Object.prototype member, or undefined.
RecRef(i) == [kind |-> "rec", idx |-> i]
ProtoRef == [kind |-> "proto", idx |-> 0]
UndefRef == [kind |-> "undef", idx |-> 0]

\* baseTranslations[code] on an object literal {} with own entries bt.
Lookup(bt, code) ==
  IF code \in DOMAIN bt THEN RecRef(bt[code])
  ELSE IF code \in ObjectPrototypeCodes THEN ProtoRef
  ELSE UndefRef

Truthy(ref) == ref.kind # "undef"

\* Object.keys(ref) and the spread {...ref}: own enumerable fields.
OwnKeys(heap, ref) == IF ref.kind = "rec" THEN DOMAIN heap[ref.idx] ELSE {}

\* What stands for the TypeError a read of a property of undefined throws:
\* it marks every value built from it.
TypeError == <<"TypeError">>

\* ref[key] for an own field; inherited members carry no such field, and
\* undefined has no properties to read.
GetProp(heap, ref, key) ==
  IF ref.kind = "undef" THEN TypeError
  ELSE IF ref.kind = "rec" /\ key \in DOMAIN heap[ref.idx]
       THEN heap[ref.idx][key]
       ELSE Undefined

\* key in t
HasKey(t, key) == key \in DOMAIN t \/ key \in ObjectPrototypeFields

\* ---------------------------------------------------------------- expander
\* First loop of expandTranslations: the first record met for each base code.
RECURSIVE BuildBase(_, _, _)
BuildBase(ts, i, bt) ==
  IF i > Len(ts) THEN bt
  ELSE LET baseCode == SplitFirst(ts[i].language)
       IN BuildBase(ts, i + 1,
                    IF ~Truthy(Lookup(bt, baseCode))
                    THEN bt @@ (baseCode :> i)
                    ELSE bt)

\* SyncRecord without the test `!(key in t)`: every key of the base is copied.
SyncRecordEveryKey(ts, i, bt) ==
  LET t == ts[i]
      baseCode == SplitFirst(t.language)
      base == Lookup(bt, baseCode)
  IN IF t.language # baseCode /\ Truthy(base)
     THEN [k \in DOMAIN t \cup OwnKeys(ts, base) |->
             IF k \in OwnKeys(ts, base) THEN GetProp(ts, base, k) ELSE t[k]]
     ELSE t

\* Body of the second loop for record i: copy onto a variant the keys of its
\* base that it does not have.  The record is changed in place.
SyncRecord(ts, i, bt) ==
  LET t == ts[i]
      baseCode == SplitFirst(t.language)
      base == Lookup(bt, baseCode)
      missing == {k \in OwnKeys(ts, base) : ~HasKey(t, k)}
  IN IF t.language # baseCode /\ Truthy(base)
     THEN [k \in DOMAIN t \cup missing |->
             IF k \in DOMAIN t THEN t[k] ELSE GetProp(ts, base, k)]
     ELSE t

RECURSIVE SyncKeys(_, _, _)
SyncKeys(ts, i, bt) ==
  IF i > Len(ts) THEN ts
  ELSE SyncKeys([ts EXCEPT ![i] = SyncRecord(ts, i, bt)], i + 1, bt)

\* VariantTranslation with the suffix added to every name, the variant that
\* is its own base code included.
VariantTranslationAlwaysSuffixed(ts, base, variant, baseCode) ==
  [k \in OwnKeys(ts, base) \cup {"language", "language_name"} |->
     IF k = "language" THEN variant
     ELSE IF k = "language_name"
          THEN TemplateText(GetProp(ts, base, "language_name"))
               \o <<" ", "(">> \o variant \o <<")">>
          ELSE GetProp(ts, base, k)]

\* VariantTranslation that keeps the language of the base code instead of
\* taking the variant code.
VariantTranslationBaseLanguage(ts, base, variant, baseCode) ==
  [k \in OwnKeys(ts, base) \cup {"language", "language_name"} |->
     IF k = "language" THEN baseCode
     ELSE IF k = "language_name"
          THEN IF variant = baseCode
               THEN GetProp(ts, base, "language_name")
               ELSE TemplateText(GetProp(ts, base, "language_name"))
                    \o <<" ", "(">> \o variant \o <<")">>
          ELSE GetProp(ts, base, k)]

\* The object literal {...baseTranslation, language, language_name}.
VariantTranslation(ts, base, variant, baseCode) ==
  [k \in OwnKeys(ts, base) \cup {"language", "language_name"} |->
     IF k = "language" THEN variant
     ELSE IF k = "language_name"
          THEN IF variant = baseCode
               THEN GetProp(ts, base, "language_name")
               ELSE TemplateText(GetProp(ts, base, "language_name"))
                    \o <<" ", "(">> \o variant \o <<")">>
          ELSE GetProp(ts, base, k)]

\* GenerateVariant without existingLanguages.add(variant).
GenerateVariantUnmarked(ts, bt, st, variant) ==
  IF variant \in st.existingLanguages THEN st
  ELSE LET baseCode == SplitFirst(variant)
           baseTranslation == Lookup(bt, baseCode)
       IN IF Truthy(baseTranslation)
          THEN [expandedTranslations |->
                  Append(st.expandedTranslations,
                         VariantTranslation(ts, baseTranslation, variant, baseCode)),
                existingLanguages |-> st.existingLanguages,
                sources |-> Append(st.sources, baseTranslation)]
          ELSE st

\* GenerateVariant without the test `if (baseTranslation)`.
GenerateVariantUnguarded(ts, bt, st, variant) ==
  IF variant \in st.existingLanguages THEN st
  ELSE LET baseCode == SplitFirst(variant)
           baseTranslation == Lookup(bt, baseCode)
       IN [expandedTranslations |->
             Append(st.expandedTranslations,
                    VariantTranslation(ts, baseTranslation, variant, baseCode)),
           existingLanguages |-> st.existingLanguages \cup {variant},
           sources |-> Append(st.sources, baseTranslation)]

\* Body of the inner generation loop for one variant code.  st carries
\* expandedTranslations, existingLanguages and, for each pushed variant, the
\* reference it was spread from (sources: bookkeeping, not program state).
GenerateVariant(ts, bt, st, variant) ==
  IF variant \in st.existingLanguages THEN st
  ELSE LET baseCode == SplitFirst(variant)
           baseTranslation == Lookup(bt, baseCode)
       IN IF Truthy(baseTranslation)
          THEN [expandedTranslations |->
                  Append(st.expandedTranslations,
                         VariantTranslation(ts, baseTranslation, variant, baseCode)),
                existingLanguages |-> st.existingLanguages \cup {variant},
                sources |-> Append(st.sources, baseTranslation)]
          ELSE st

\* The inner loop run from the last code of a family to its first.
RECURSIVE GenerateFamilyBackwards(_, _, _, _, _)
GenerateFamilyBackwards(ts, bt, st, variants, j) ==
  IF j > Len(variants) THEN st
  ELSE GenerateFamilyBackwards(
         ts, bt,
         GenerateVariant(ts, bt, st, variants[Len(variants) + 1 - j]),
         variants, j + 1)

RECURSIVE GenerateFamily(_, _, _, _, _)
GenerateFamily(ts, bt, st, variants, j) ==
  IF j > Len(variants) THEN st
  ELSE GenerateFamily(ts, bt, GenerateVariant(ts, bt, st, variants[j]),
                      variants, j + 1)

RECURSIVE GenerateAll(_, _, _, _, _)
GenerateAll(ts, bt, st, vs, f) ==
  IF f > Len(vs) THEN st
  ELSE GenerateAll(ts, bt, GenerateFamily(ts, bt, st, vs[f], 1), vs, f + 1)

\* existingLanguages started empty instead of from the input's languages.
ExistingLanguagesEmpty(ts) == {}

\* new Set(translations.map(t => t.language))
ExistingLanguages(ts) == {ts[i].language : i \in 1..Len(ts)}

\* expandTranslations(translations, variations).  expandedTranslations is the
\* returned array; translations is the argument array as the call leaves it
\* (its records are the very objects at the head of the returned array).
expandTranslations(ts, vs) ==
  LET existingLanguages == ExistingLanguages(ts)
      baseTranslations == BuildBase(ts, 1, <<>>)
      synced == SyncKeys(ts, 1, baseTranslations)
      st == GenerateAll(synced, baseTranslations,
                        [expandedTranslations |-> synced,
                         existingLanguages |-> existingLanguages,
                         sources |-> <<>>],
                        vs, 1)
  IN [expandedTranslations |-> st.expandedTranslations,
      translations |-> synced,
      baseTranslations |-> baseTranslations,
      sources |-> st.sources]

\* ------------------------------------------------------- legacy expander
\* translations.find(t => t.language === baseCode): the first record of that
\* language, or undefined.
LegacyFind(ts, baseCode) ==
  IF \E i \in 1..Len(ts) : ts[i].language = baseCode
  THEN RecRef(CHOOSE i \in 1..Len(ts) :
                /\ ts[i].language = baseCode
                /\ \A j \in 1..(i - 1) : ts[j].language # baseCode)
  ELSE UndefRef

\* The body of the inner loop of the legacy expandTranslations.
LegacyGenerateVariant(ts, st, variant) ==
  IF variant \in st.existingLanguages THEN st
  ELSE LET baseCode == SplitFirst(variant)
           baseTranslation == LegacyFind(ts, baseCode)
       IN IF Truthy(baseTranslation)
          THEN [expandedTranslations |->
                  Append(st.expandedTranslations,
                         VariantTranslation(ts, baseTranslation, variant, baseCode)),
                existingLanguages |-> st.existingLanguages \cup {variant},
                sources |-> Append(st.sources, baseTranslation)]
          ELSE st

RECURSIVE LegacyGenerateFamily(_, _, _, _)
LegacyGenerateFamily(ts, st, variants, j) ==
  IF j > Len(variants) THEN st
  ELSE LegacyGenerateFamily(ts, LegacyGenerateVariant(ts, st, variants[j]),
                            variants, j + 1)

RECURSIVE LegacyGenerateAll(_, _, _, _)
LegacyGenerateAll(ts, st, vs, f) ==
  IF f > Len(vs) THEN st
  ELSE LegacyGenerateAll(ts, LegacyGenerateFamily(ts, st, vs[f], 1), vs, f + 1)

\* expandTranslations(translations, variations) of the legacy expander: no
\* base index and no key synchronisation; the argument array is not changed.
legacyExpandTranslations(ts, vs) ==
  LET st == LegacyGenerateAll(ts,
                              [expandedTranslations |-> ts,
                               existingLanguages |-> {ts[i].language : i \in 1..Len(ts)},
                               sources |-> <<>>],
                              vs, 1)
  IN [expandedTranslations |-> st.expandedTranslations,
      translations |-> ts,
      baseTranslations |-> <<>>,
      sources |-> st.sources,
      returned |-> TRUE]

\* ---------------------------------------------------------------- inputs
\* Locale codes of the records of a Translation Set, and of a Variation Table.
RecordCodes == {en, enUS, valueOf}
TableCodes == {en, enUS, enGB, valueOf}
Names == {<<"E">>}
Texts == {<<"x">>, <<"y">>}
OptionalFields == {"title"}

Records ==
  {[language |-> l, language_name |-> n] @@ extra :
     l \in RecordCodes, n \in Names,
     extra \in UNION {[F -> Texts] : F \in SUBSET OptionalFields}}

TranslationSets == UNION {[1..n -> Records] : n \in 0..MaxRecords}

VariantLists == UNION {[1..n -> TableCodes] : n \in 0..MaxVariants}

\* Tables of no family, of one family, and of two families that share out a
\* list of at most MaxVariants codes (either family may be empty).
VariationTables ==
  {<<>>} \cup {<<l>> : l \in VariantLists}
  \cup UNION {{<<SubSeq(l, 1, k), SubSeq(l, k + 1, Len(l))>> : k \in 0..Len(l)} :
              l \in VariantLists}

\* Translation Sets and tables of unusual language strings: the empty
\* string, a string that starts with '-', one with no '-', and the name of
\* a member of Object.prototype, alone or as a Base Code.
dashX == <<"-", "x">>
xx == <<"x", "x">>
xxY == <<"x", "x", "-", "y">>
valueOfX == valueOf \o dashX
OddRecordCodes == {<<>>, dashX, xx, valueOfX}
OddTableCodes == {<<>>, dashX, xxY, valueOf, valueOfX}

OddRecords ==
  {[language |-> l, language_name |-> <<"E">>] @@ extra :
     l \in OddRecordCodes,
     extra \in UNION {[F -> {<<"x">>}] : F \in SUBSET OptionalFields}}

OddTranslationSets == UNION {[1..n -> OddRecords] : n \in 0..MaxRecords}

OddTables ==
  {<<l>> : l \in UNION {[1..n -> OddTableCodes] : n \in 0..MaxVariants}}

\* ---------------------------------------------------------------- files
dotJson == <<".", "j", "s", "o", "n">>
aJson == <<"a">> \o dotJson
bJson == <<"b">> \o dotJson
packageJson == <<"p", "a", "c", "k", "a", "g", "e">> \o dotJson
notesTxt == <<"n", "o", "t", "e", "s", ".", "t", "x", "t">>

\* file.endsWith(suffix)
EndsWith(file, suffix) ==
  /\ Len(file) >= Len(suffix)
  /\ SubSeq(file, Len(file) - Len(suffix) + 1, Len(file)) = suffix

\* The filter of loadJSONFiles (the expander's loader).
IsLoaderFile(file) == EndsWith(file, dotJson) /\ file # packageJson

\* The filter of validateDirectory.
IsValidatorFile(file) == EndsWith(file, dotJson)

\* The text of a file is held as what JSON.parse makes of it: an array of
\* records, or nothing (a syntax error).
Malformed == [kind |-> "malformed", data |-> <<>>]
JsonText(data) == [kind |-> "json", data |-> data]

\* JSON.stringify(data, null, 2): a field whose value is undefined is left out.
JSONStringify(data) ==
  JsonText([i \in 1..Len(data) |->
              [k \in {f \in DOMAIN data[i] : data[i][f] # Undefined} |-> data[i][k]]])

Parses(text) == text.kind = "json"
JSONParse(text) == text.data

\* error.message of a failed readFile and of a failed JSON.parse.
ReadErrorMessage == "ENOENT: no such file or directory"
WriteErrorMessage == "ENOSPC: no space left on device"
ListErrorMessage == "ENOENT: no such file or directory, scandir"
ParseErrorMessage == "Unexpected token ] in JSON at position 7"

\* Translation Sets and tables of the files of a directory.
enRecord == [language |-> en, language_name |-> <<"E">>, title |-> <<"x">>]
enUSRecord == [language |-> enUS, language_name |-> <<"E">>]
FileSets == {<<enRecord>>, <<enRecord, enUSRecord>>, <<enUSRecord, enRecord>>}
FileTexts == {Malformed} \cup {JsonText(d) : d \in FileSets}
FileNames == {aJson, bJson, packageJson, notesTxt}
DirectoryTables == {<<<<en, enGB>>>>, <<<<valueOf>>, <<enUS>>>>}

\* What readdir can return: at most MaxFiles names, none twice.
Listings ==
  {l \in UNION {[1..n -> FileNames] : n \in 0..MaxFiles} :
     \A i, j \in 1..Len(l) : i # j => l[i] # l[j]}

\* ---------------------------------------------------------------- state
VARIABLES
  translations,   \* the parsed Translation Set handed to the expander
  variations,     \* the Variation Table, families in table order
  pc,             \* where the run stands
  first,          \* the result of expandTranslations(translations, variations)
  second,         \* the result of expanding first's array once more
  listing,        \* the names readdir returns for the directory, in order
  disk,           \* the text of each file of the directory
  disk0,          \* the directory as the run found it
  jsonFiles,      \* the names that passed the filter
  files,          \* loadJSONFiles' results: {filename, data}
  cursor,         \* index of the file the current loop is at
  results,        \* the results array of processDirectory / validateDirectory
  settled,        \* validateDirectory: the checks that have completed, in order
  readOk,         \* validateDirectory: whether each completed read succeeded
  failure,        \* what made the run throw: "" while it has not
  log,            \* processDirectory's file operations, in the order they happen
  runs,           \* how many times processDirectory has been started
  stored,         \* the directory as the first completed run left it
  single,         \* processFile on one file of the directory: its own state
  legacy,         \* the result of the legacy expandTranslations
  tree,           \* the validation run: the target directories
  dir,            \* the validation run: index of the directory being checked
  allResults,     \* the validation run: the entries collected so far
  reported,       \* the validation run: the entries printed as errors
  exit            \* the validation run: the exit status, -1 while running

expandVars == <<translations, variations, pc, first, second>>
dirVars ==
  <<listing, disk, disk0, jsonFiles, files, cursor, results, settled, readOk,
    failure>>
batchVars == <<log, runs, stored>>
runVars == <<tree, dir, allResults, reported, exit>>
vars == <<expandVars, dirVars, batchVars, single, legacy, runVars>>

NoResult ==
  [expandedTranslations |-> <<>>, translations |-> <<>>,
   baseTranslations |-> <<>>, sources |-> <<>>]

NoDirectory ==
  /\ listing = <<>>
  /\ disk = <<>>
  /\ disk0 = <<>>
  /\ jsonFiles = <<>>
  /\ files = <<>>
  /\ cursor = 0
  /\ results = <<>>
  /\ settled = <<>>
  /\ readOk = <<>>
  /\ failure = ""

NoSingle == [pc |-> "none"]

NotStored == [set |-> FALSE, run |-> 0, before |-> <<>>, disk |-> <<>>]

NoBatch ==
  /\ log = <<>>
  /\ runs = 1
  /\ stored = NotStored

NoRun ==
  /\ tree = <<>>
  /\ dir = 0
  /\ allResults = <<>>
  /\ reported = <<>>
  /\ exit = -1

InitExpand ==
  /\ translations \in TranslationSets
  /\ variations \in VariationTables
  /\ pc = "parsed"
  /\ first = NoResult
  /\ second = NoResult
  /\ legacy = NoResult
  /\ single = NoSingle
  /\ NoDirectory
  /\ NoBatch
  /\ NoRun

Expand ==
  /\ pc = "parsed"
  /\ first' = expandTranslations(translations, variations)
  /\ pc' = "expanded"
  /\ UNCHANGED <<translations, variations, second, dirVars>>
  /\ UNCHANGED <<batchVars, single, legacy, runVars>>

ExpandAgain ==
  /\ pc = "expanded"
  /\ second' = expandTranslations(first.expandedTranslations, variations)
  /\ pc' = "expandedAgain"
  /\ UNCHANGED <<translations, variations, first, dirVars>>
  /\ UNCHANGED <<batchVars, single, legacy, runVars>>

NextExpand == Expand \/ ExpandAgain

SpecExpand == InitExpand /\ [][NextExpand]_vars

InitOdd ==
  /\ translations \in OddTranslationSets
  /\ variations \in OddTables
  /\ pc = "parsed"
  /\ first = NoResult
  /\ second = NoResult
  /\ legacy = NoResult
  /\ single = NoSingle
  /\ NoDirectory
  /\ NoBatch
  /\ NoRun

SpecOdd == InitOdd /\ [][NextExpand]_vars

\* The legacy expander is given the same set and table as the current one.
ExpandLegacy ==
  /\ pc \in {"parsed", "expanded"}
  /\ "returned" \notin DOMAIN legacy
  /\ legacy' = legacyExpandTranslations(translations, variations)
  /\ UNCHANGED <<expandVars, dirVars, batchVars, single, runVars>>

NextLegacy == Expand \/ ExpandLegacy

SpecLegacy == InitExpand /\ [][NextLegacy]_vars

\* ---------------------------------------------------------------- batch
InitDirectory ==
  /\ listing \in Listings
  /\ disk \in [{listing[i] : i \in 1..Len(listing)} -> FileTexts]
  /\ disk0 = disk
  /\ variations \in DirectoryTables
  /\ pc = "start"
  /\ translations = <<>>
  /\ first = NoResult
  /\ second = NoResult
  /\ jsonFiles = <<>>
  /\ files = <<>>
  /\ cursor = 0
  /\ results = <<>>
  /\ settled = <<>>
  /\ readOk = <<>>
  /\ failure = ""
  /\ legacy = NoResult
  /\ single = NoSingle
  /\ NoBatch
  /\ NoRun

\* loadJSONFiles: readdir and the filter.  A failed readdir rejects.
ReadDir ==
  /\ pc = "start"
  /\ \E ok \in BOOLEAN :
       IF ok
       THEN /\ jsonFiles' = SelectSeq(listing, IsLoaderFile)
            /\ cursor' = 1
            /\ pc' = "loading"
            /\ UNCHANGED failure
       ELSE /\ pc' = "failed"
            /\ failure' = ListErrorMessage
            /\ UNCHANGED <<jsonFiles, cursor>>
  /\ UNCHANGED <<translations, variations, first, second, listing, disk, disk0,
                 files, results, settled, readOk>>
  /\ UNCHANGED <<batchVars, single, legacy, runVars>>

\* loadJSONFiles, one turn of the loop: read and parse a file, or throw.  The
\* catch block reads the file again when the parser named a position, and
\* that read can fail in its turn.
LoadFile ==
  /\ pc = "loading"
  /\ cursor <= Len(jsonFiles)
  /\ LET file == jsonFiles[cursor]
     IN \E ok \in BOOLEAN :
          IF ok /\ Parses(disk[file])
          THEN /\ files' = Append(files, [filename |-> file,
                                          data |-> JSONParse(disk[file])])
               /\ cursor' = cursor + 1
               /\ log' = Append(log, <<"parsed", file>>)
               /\ UNCHANGED <<pc, failure>>
          ELSE /\ pc' = "failed"
               /\ failure' \in
                    IF ok THEN {"Invalid JSON file", ReadErrorMessage}
                    ELSE {"Invalid JSON file"}
               /\ UNCHANGED <<files, cursor, log>>
  /\ UNCHANGED <<translations, variations, first, second, listing, disk, disk0,
                 jsonFiles, results, settled, readOk>>
  /\ UNCHANGED <<runs, stored, single, legacy, runVars>>

\* loadJSONFiles returns; processDirectory enters its loop.
LoadDone ==
  /\ pc = "loading"
  /\ cursor > Len(jsonFiles)
  /\ pc' = "processing"
  /\ cursor' = 1
  /\ UNCHANGED <<translations, variations, first, second, listing, disk, disk0,
                 jsonFiles, files, results, settled, readOk, failure>>
  /\ UNCHANGED <<batchVars, single, legacy, runVars>>

\* processDirectory, one turn of the loop up to the call of saveJSON: expand
\* (which changes the loaded records in place) and start the write.
SaveFile ==
  /\ pc = "processing"
  /\ cursor <= Len(files)
  /\ LET file == files[cursor]
         expanded == expandTranslations(file.data, variations)
     IN /\ first' = expanded
        /\ files' = [files EXCEPT ![cursor].data = expanded.translations]
        /\ log' = Append(log, <<"write", file.filename>>)
  /\ pc' = "saving"
  /\ UNCHANGED <<translations, variations, second, listing, disk, disk0,
                 jsonFiles, cursor, results, settled, readOk, failure>>
  /\ UNCHANGED <<runs, stored, single, legacy, runVars>>

\* await saveJSON(...) ends: the file holds the new text, or the write has
\* failed and left the file as it was or with part of the new text.
WriteCompletes ==
  /\ pc = "saving"
  /\ \E outcome \in {"written", "untouched", "partial"} :
       /\ disk' = [disk EXCEPT ![files[cursor].filename] =
                     IF outcome = "written"
                     THEN JSONStringify(first.expandedTranslations)
                     ELSE IF outcome = "partial" THEN Malformed ELSE @]
       /\ pc' = IF outcome = "written" THEN "saved" ELSE "failed"
       /\ failure' = IF outcome = "written" THEN failure
                     ELSE WriteErrorMessage
       /\ log' = IF outcome = "written"
                 THEN Append(log, <<"written", files[cursor].filename>>)
                 ELSE log
  /\ UNCHANGED <<translations, variations, first, second, listing, disk0,
                 jsonFiles, files, cursor, results, settled, readOk>>
  /\ UNCHANGED <<runs, stored, single, legacy, runVars>>

\* results.push({...}) before the write of the file has ended.
RecordStatsBeforeWrite ==
  /\ pc \in {"saving", "saved"}
  /\ results' = Append(results,
       [filename |-> files[cursor].filename,
        original |-> Len(files[cursor].data),
        expanded |-> Len(first.expandedTranslations),
        added |-> Len(first.expandedTranslations) - Len(files[cursor].data)])
  /\ log' = Append(log, <<"stat", files[cursor].filename>>)
  /\ cursor' = cursor + 1
  /\ pc' = "processing"
  /\ UNCHANGED <<translations, variations, first, second, listing, disk, disk0,
                 jsonFiles, files, settled, readOk, failure>>
  /\ UNCHANGED <<runs, stored, single, legacy, runVars>>

\* processDirectory, the rest of the turn: results.push({...}).
RecordStats ==
  /\ pc = "saved"
  /\ results' = Append(results,
       [filename |-> files[cursor].filename,
        original |-> Len(files[cursor].data),
        expanded |-> Len(first.expandedTranslations),
        added |-> Len(first.expandedTranslations) - Len(files[cursor].data)])
  /\ log' = Append(log, <<"stat", files[cursor].filename>>)
  /\ cursor' = cursor + 1
  /\ pc' = "processing"
  /\ UNCHANGED <<translations, variations, first, second, listing, disk, disk0,
                 jsonFiles, files, settled, readOk, failure>>
  /\ UNCHANGED <<runs, stored, single, legacy, runVars>>

\* processDirectory returns results.  stored keeps the directory as the
\* first run that returned found it and left it.
ReturnResults ==
  /\ pc = "processing"
  /\ cursor > Len(files)
  /\ pc' = "done"
  /\ stored' = IF stored.set THEN stored
               ELSE [set |-> TRUE, run |-> runs, before |-> disk0, disk |-> disk]
  /\ UNCHANGED <<translations, variations, first, second, listing, disk, disk0,
                 jsonFiles, files, cursor, results, settled, readOk, failure>>
  /\ UNCHANGED <<log, runs, single, legacy, runVars>>

NextBatch ==
  \/ ReadDir
  \/ LoadFile
  \/ LoadDone
  \/ SaveFile
  \/ WriteCompletes
  \/ RecordStats
  \/ ReturnResults

SpecBatch == InitDirectory /\ [][NextBatch]_vars

\* The program is started again over the same directory with the same
\* table: processDirectory begins anew on the files as the last run left
\* them.
Rerun ==
  /\ pc \in {"done", "failed"}
  /\ runs < MaxRuns
  /\ runs' = runs + 1
  /\ pc' = "start"
  /\ disk0' = disk
  /\ first' = NoResult
  /\ jsonFiles' = <<>>
  /\ files' = <<>>
  /\ cursor' = 0
  /\ results' = <<>>
  /\ failure' = ""
  /\ log' = <<>>
  /\ UNCHANGED <<translations, variations, second, listing, disk, settled,
                 readOk, stored, single, legacy, runVars>>

NextRerun == NextBatch \/ Rerun

\* ---------------------------------------------------------- single file
\* The directories a file path can name: the current one and a folder.
DirPaths == {<<".">>, <<"s">>}

\* path.join(dirPath, file)
PathJoin(dirPath, file) ==
  IF dirPath = <<".">> THEN file ELSE dirPath \o <<"/">> \o file

\* filename: filePath, without path.basename.
BasenameWholePath(filePath) == filePath

\* path.basename(filePath), for a path that does not end with a separator.
RECURSIVE Basename(_)
Basename(filePath) ==
  IF \E i \in 1..Len(filePath) : filePath[i] = "/"
  THEN LET i == CHOOSE j \in 1..Len(filePath) : filePath[j] = "/"
       IN Basename(SubSeq(filePath, i + 1, Len(filePath)))
  ELSE filePath

\* processFile is given the path of one qualifying file of the directory,
\* on a copy of the directory of its own, with the same table.
InitFile ==
  /\ listing \in Listings
  /\ disk \in [{listing[i] : i \in 1..Len(listing)} -> FileTexts]
  /\ disk0 = disk
  /\ variations \in DirectoryTables
  /\ pc = "start"
  /\ translations = <<>>
  /\ first = NoResult
  /\ second = NoResult
  /\ jsonFiles = <<>>
  /\ files = <<>>
  /\ cursor = 0
  /\ results = <<>>
  /\ settled = <<>>
  /\ readOk = <<>>
  /\ failure = ""
  /\ legacy = NoResult
  /\ \E i \in 1..Len(listing) : \E dirPath \in DirPaths :
       /\ IsLoaderFile(listing[i])
       /\ single = [pc |-> "start",
                    name |-> listing[i],
                    filePath |-> PathJoin(dirPath, listing[i]),
                    file |-> disk[listing[i]],
                    data |-> <<>>,
                    expanded |-> <<>>,
                    result |-> <<>>]
  /\ NoBatch
  /\ NoRun

\* processFile: readFile, JSON.parse and expandTranslations (which changes
\* the parsed records in place), up to the call of saveJSON.  A failed read
\* or parse is rethrown by the catch block.
ProcessFileRead ==
  /\ single.pc = "start"
  /\ \E ok \in BOOLEAN :
       IF ok /\ Parses(single.file)
       THEN LET expanded == expandTranslations(JSONParse(single.file), variations)
            IN single' = [single EXCEPT !.pc = "saving",
                                        !.data = expanded.translations,
                                        !.expanded = expanded.expandedTranslations]
       ELSE single' = [single EXCEPT !.pc = "failed"]
  /\ UNCHANGED <<expandVars, dirVars, batchVars, legacy, runVars>>

\* processFile: await saveJSON(filePath, expanded) ends.
ProcessFileWrite ==
  /\ single.pc = "saving"
  /\ \E outcome \in {"written", "untouched", "partial"} :
       single' = [single EXCEPT
                    !.pc = IF outcome = "written" THEN "saved" ELSE "failed",
                    !.file = IF outcome = "written"
                             THEN JSONStringify(single.expanded)
                             ELSE IF outcome = "partial" THEN Malformed ELSE @]
  /\ UNCHANGED <<expandVars, dirVars, batchVars, legacy, runVars>>

\* processFile: return {filename, original, expanded, added}.
ProcessFileReturn ==
  /\ single.pc = "saved"
  /\ single' = [single EXCEPT
                  !.pc = "returned",
                  !.result = [filename |-> Basename(single.filePath),
                              original |-> Len(single.data),
                              expanded |-> Len(single.expanded),
                              added |-> Len(single.expanded) - Len(single.data)]]
  /\ UNCHANGED <<expandVars, dirVars, batchVars, legacy, runVars>>

NextFile ==
  \/ NextBatch
  \/ ProcessFileRead
  \/ ProcessFileWrite
  \/ ProcessFileReturn

SpecFile == InitFile /\ [][NextFile]_vars

SpecRerun == InitDirectory /\ [][NextRerun]_vars

\* ---------------------------------------------------------------- validator
\* A slot of Promise.all's array that no check has filled yet.
Pending == [pending |-> TRUE]

\* validateJSON: what it returns for a file, given whether readFile succeeded.
validateJSON(file, ok, text) ==
  IF ok /\ Parses(text)
  THEN [valid |-> TRUE, file |-> file]
  ELSE [valid |-> FALSE, file |-> file,
        error |-> IF ok THEN ParseErrorMessage ELSE ReadErrorMessage]

\* The values collected in the order the checks complete.
SettleInCompletionOrder(slots, i, entry) ==
  LET k == CHOOSE k \in 1..Len(slots) :
             slots[k] = Pending /\ \A j \in 1..(k - 1) : slots[j] # Pending
  IN [slots EXCEPT ![k] = entry]

\* Promise.all: the value of the i-th promise goes to the i-th slot.
Settle(slots, i, entry) == [slots EXCEPT ![i] = entry]

\* validateDirectory: readdir, the filter, and the map that starts one
\* validateJSON per file.  A failed readdir rejects.
ListDirectory ==
  /\ pc = "start"
  /\ \E ok \in BOOLEAN :
       IF ok
       THEN /\ jsonFiles' = SelectSeq(listing, IsValidatorFile)
            /\ results' = [i \in 1..Len(jsonFiles') |-> Pending]
            /\ pc' = "checking"
            /\ UNCHANGED failure
       ELSE /\ pc' = "threw"
            /\ failure' = ListErrorMessage
            /\ UNCHANGED <<jsonFiles, results>>
  /\ UNCHANGED <<translations, variations, first, second, listing, disk, disk0,
                 files, cursor, settled, readOk>>
  /\ UNCHANGED <<batchVars, single, legacy, runVars>>

\* The check of file i completes: its read ends (well or not), the text is
\* parsed, and the promise resolves.  The checks complete in any order.
CheckCompletes(i) ==
  /\ pc = "checking"
  /\ i \in 1..Len(jsonFiles)
  /\ \A k \in 1..Len(settled) : settled[k] # i
  /\ \E ok \in BOOLEAN :
       /\ results' = Settle(results, i,
                            validateJSON(jsonFiles[i], ok, disk[jsonFiles[i]]))
       /\ readOk' = (i :> ok) @@ readOk
  /\ settled' = Append(settled, i)
  /\ UNCHANGED <<translations, variations, pc, first, second, listing, disk,
                 disk0, jsonFiles, files, cursor, failure>>
  /\ UNCHANGED <<batchVars, single, legacy, runVars>>

\* Every check has completed: Promise.all resolves and the array is returned.
ReturnChecks ==
  /\ pc = "checking"
  /\ Len(settled) = Len(jsonFiles)
  /\ pc' = "returned"
  /\ UNCHANGED <<translations, variations, first, second, listing, disk, disk0,
                 jsonFiles, files, cursor, results, settled, readOk, failure>>
  /\ UNCHANGED <<batchVars, single, legacy, runVars>>

NextValidate ==
  \/ ListDirectory
  \/ \E i \in 1..MaxFiles : CheckCompletes(i)
  \/ ReturnChecks

SpecValidate == InitDirectory /\ [][NextValidate]_vars

\* ---------------------------------------------------------------- validation run
\* main of validate.js checks '.', './subjects' and './templates' in turn.
TargetDirectories == 3

RunListings == {<<>>, <<aJson>>, <<aJson, bJson>>}
RunTexts == {Malformed, JsonText(<<enRecord>>)}
RunDirectories ==
  UNION {{[listing |-> l, disk |-> d] :
            d \in [{l[i] : i \in 1..Len(l)} -> RunTexts]} : l \in RunListings}

InitRun ==
  /\ tree \in [1..TargetDirectories -> RunDirectories]
  /\ dir = 1
  /\ listing = tree[1].listing
  /\ disk = tree[1].disk
  /\ disk0 = disk
  /\ allResults = <<>>
  /\ reported = <<>>
  /\ exit = -1
  /\ pc = "start"
  /\ translations = <<>>
  /\ variations = <<>>
  /\ first = NoResult
  /\ second = NoResult
  /\ legacy = NoResult
  /\ single = NoSingle
  /\ jsonFiles = <<>>
  /\ files = <<>>
  /\ cursor = 0
  /\ results = <<>>
  /\ settled = <<>>
  /\ readOk = <<>>
  /\ failure = ""
  /\ NoBatch

\* main: one validateDirectory has returned; its entries are kept (each with
\* the directory its path names) and the next directory is entered, or,
\* after the last, the entries are put together.
NextDirectory ==
  /\ pc = "returned"
  /\ allResults' = allResults
       \o [i \in 1..Len(results) |-> [dir |-> dir, entry |-> results[i]]]
  /\ IF dir < TargetDirectories
     THEN /\ dir' = dir + 1
          /\ listing' = tree[dir + 1].listing
          /\ disk' = tree[dir + 1].disk
          /\ disk0' = tree[dir + 1].disk
          /\ pc' = "start"
          /\ jsonFiles' = <<>>
          /\ results' = <<>>
          /\ settled' = <<>>
          /\ readOk' = <<>>
     ELSE /\ pc' = "collected"
          /\ UNCHANGED <<dir, listing, disk, disk0, jsonFiles, results, settled,
                         readOk>>
  /\ UNCHANGED <<translations, variations, first, second, files, cursor,
                 failure, batchVars, single, legacy, tree, reported, exit>>

\* main: the invalid entries are printed and the process exits with 1, or
\* none is invalid and main returns.
Report ==
  /\ pc = "collected"
  /\ reported' = SelectSeq(allResults, LAMBDA r : ~r.entry.valid)
  /\ exit' = IF Len(reported') > 0 THEN 1 ELSE 0
  /\ pc' = "exited"
  /\ UNCHANGED <<translations, variations, first, second, dirVars, batchVars,
                 single, legacy, tree, dir, allResults>>

\* main has no try/catch and main() no catch: a validateDirectory that
\* rejects ends the process on the unhandled rejection, nothing printed.
Crash ==
  /\ pc = "threw"
  /\ exit' = 1
  /\ pc' = "crashed"
  /\ UNCHANGED <<translations, variations, first, second, dirVars, batchVars,
                 single, legacy, tree, dir, allResults, reported>>

NextRun ==
  \/ ListDirectory
  \/ \E i \in 1..MaxFiles : CheckCompletes(i)
  \/ ReturnChecks
  \/ NextDirectory
  \/ Report
  \/ Crash

SpecRun == InitRun /\ [][NextRun]_vars

\* ---------------------------------------------------------------- expander claims
NoDuplicateLanguage(ts) ==
  \A i, j \in 1..Len(ts) : i # j => ts[i].language # ts[j].language

\* The records the first call pushed after the input records.
Synthesized ==
  SubSeq(first.expandedTranslations, Len(translations) + 1,
         Len(first.expandedTranslations))

RECURSIVE Flatten(_)
Flatten(vs) == IF vs = <<>> THEN <<>> ELSE Head(vs) \o Flatten(Tail(vs))

\* The codes of S in the order of their first occurrence in flat.
RECURSIVE TableOrder(_, _, _)
TableOrder(flat, S, seen) ==
  IF flat = <<>> THEN <<>>
  ELSE IF Head(flat) \in S /\ Head(flat) \notin seen
       THEN <<Head(flat)>> \o TableOrder(Tail(flat), S, seen \cup {Head(flat)})
       ELSE TableOrder(Tail(flat), S, seen)

IsVariantRecord(t) == t.language # SplitFirst(t.language)

\* C1: expanding the output of expand again, with the same Variation Table,
\* returns the same records: none added, no field changed.
C1_Idempotent ==
  pc = "expandedAgain" =>
    second.expandedTranslations = first.expandedTranslations

C1_Witness ==
  /\ pc = "expandedAgain"
  /\ Len(first.expandedTranslations) > Len(translations)
  /\ first.translations # translations

\* C2: when no two input records share a language, no two output records do,
\* also when the table lists a code more than once.
C2_Unique ==
  (pc # "parsed" /\ NoDuplicateLanguage(translations)) =>
    NoDuplicateLanguage(first.expandedTranslations)

C2_Witness ==
  /\ pc = "expanded"
  /\ NoDuplicateLanguage(translations)
  /\ \E i, j \in 1..Len(Flatten(variations)) :
       /\ i # j
       /\ Flatten(variations)[i] = Flatten(variations)[j]
       /\ \E k \in 1..Len(Synthesized) :
            Synthesized[k].language = Flatten(variations)[i]

\* C3: an input variant record ends with every field of the base record of
\* its Base Code (the input record whose language is that Base Code), the
\* fields it lacked carrying the base record's values, wherever the two stand
\* (stated for the inputs in which no two records share a language).
C3_BackfillComplete ==
  (pc = "expanded" /\ NoDuplicateLanguage(translations)) =>
    \A b, v \in 1..Len(translations) :
      (/\ IsVariantRecord(translations[v])
       /\ translations[b].language = SplitFirst(translations[v].language)) =>
        \A k \in DOMAIN translations[b] :
          /\ k \in DOMAIN first.expandedTranslations[v]
          /\ k \notin DOMAIN translations[v] =>
               first.expandedTranslations[v][k] = translations[b][k]

\* No code of the table starts with a name inherited from Object.prototype.
OrdinaryTable ==
  \A i \in 1..Len(Flatten(variations)) :
    SplitFirst(Flatten(variations)[i]) \notin ObjectPrototypeCodes

\* C4: a variant code whose Base Code is the language of no input record
\* gets no new record (stated for the tables of ordinary codes).
C4_SkipWithoutBase ==
  (pc = "expanded" /\ OrdinaryTable) =>
    \A k \in 1..Len(Synthesized) :
      \E b \in 1..Len(translations) :
        translations[b].language = SplitFirst(Synthesized[k].language)

\* C5: every field an input record has keeps its value in the output; no
\* field is removed, whatever the base record holds for it.
C5_NonDestructive ==
  pc = "expanded" =>
    /\ Len(first.expandedTranslations) >= Len(translations)
    /\ \A i \in 1..Len(translations) :
         \A k \in DOMAIN translations[i] :
           /\ k \in DOMAIN first.expandedTranslations[i]
           /\ first.expandedTranslations[i][k] = translations[i][k]

C5_Witness ==
  /\ pc = "expanded"
  /\ \E b, v \in 1..Len(translations) :
       /\ b < v
       /\ IsVariantRecord(translations[v])
       /\ translations[b].language = SplitFirst(translations[v].language)
       /\ "title" \in DOMAIN translations[b]
       /\ "title" \in DOMAIN translations[v]
       /\ translations[b].title # translations[v].title

\* C6: every synthesized record is spread from the input record whose
\* language is the Base Code of its variant code, never from another record
\* (stated for the inputs that hold such a record).
C6_CanonicalSource ==
  (pc = "expanded" /\ OrdinaryTable) =>
    \A k \in 1..Len(Synthesized) :
      (\E b \in 1..Len(translations) :
         translations[b].language = SplitFirst(Synthesized[k].language)) =>
        /\ first.sources[k].kind = "rec"
        /\ translations[first.sources[k].idx].language
             = SplitFirst(Synthesized[k].language)

\* The fields of the object a synthesized record was spread from, as the
\* input holds them; an inherited Object.prototype member has none.
SourceFields(ref) == IF ref.kind = "rec" THEN translations[ref.idx] ELSE <<>>

NameOf(b) == IF "language_name" \in DOMAIN b THEN b["language_name"] ELSE Undefined

\* C7: a record synthesized for code v from b has b's fields and values,
\* language v, and language_name b's own when v is its Base Code and
\* "<b's name> (<v>)" otherwise.
C7_SynthesisRule ==
  pc = "expanded" =>
    \A k \in 1..Len(Synthesized) :
      LET r == Synthesized[k]
          v == r.language
          b == SourceFields(first.sources[k])
          shown == IF NameOf(b) = Undefined THEN UndefinedText ELSE NameOf(b)
      IN /\ DOMAIN r = DOMAIN b \cup {"language", "language_name"}
         /\ \A f \in DOMAIN b \ {"language", "language_name"} : r[f] = b[f]
         /\ r.language_name =
              IF v = SplitFirst(v) THEN NameOf(b)
              ELSE shown \o <<" ", "(">> \o v \o <<")">>

C7_Witness ==
  /\ pc = "expanded"
  /\ \E k \in 1..Len(Synthesized) :
       /\ Synthesized[k].language = enGB
       /\ first.sources[k].kind = "rec"
       /\ "title" \in DOMAIN Synthesized[k]
       /\ Synthesized[k].language_name
            = <<"E", " ", "(", "e", "n", "-", "G", "B", ")">>
  /\ \E k \in 1..Len(Synthesized) : Synthesized[k].language = en

\* C8: the output is the input records in their order followed by the new
\* records in table order; no code of the input, and no code already
\* synthesized, is synthesized.
C8_OutputShape ==
  pc = "expanded" =>
    LET out == first.expandedTranslations
        n == Len(translations)
        synthLangs == [k \in 1..Len(Synthesized) |-> Synthesized[k].language]
        S == {synthLangs[k] : k \in 1..Len(Synthesized)}
    IN /\ Len(out) >= n
       /\ \A i \in 1..n : out[i].language = translations[i].language
       /\ \A i \in 1..n : translations[i].language \notin S
       /\ synthLangs = TableOrder(Flatten(variations), S, {})

C8_Witness ==
  /\ pc = "expanded"
  /\ Len(translations) = 2
  /\ Len(variations) = 2
  /\ Len(variations[1]) = 1
  /\ Len(Synthesized) = 2

\* ---------------------------------------------------------------- directory claims
\* C9: when processDirectory fails, no file of the directory has been
\* overwritten.  Stated for the files other than the one whose own write
\* failed, which the failed write itself may have damaged.
C9_NoPartialCommit ==
  pc = "failed" =>
    \A f \in DOMAIN disk :
      disk[f] # disk0[f] =>
        (failure = WriteErrorMessage /\ f = files[cursor].filename)

\* C10: validateDirectory throws for no file; it returns one entry per file
\* with the .json extension, in listing order, valid exactly when that file
\* was read and parses, and with an error description when not, whatever
\* the order in which the checks complete.
C10_ValidatorCollects ==
  /\ pc = "threw" => failure = ListErrorMessage
  /\ pc = "returned" =>
       LET q == SelectSeq(listing, LAMBDA f : EndsWith(f, dotJson))
       IN /\ Len(results) = Len(q)
          /\ \A i \in 1..Len(q) :
               /\ results[i] # Pending
               /\ results[i].file = q[i]
               /\ results[i].valid = (readOk[i] /\ disk[q[i]].kind = "json")
               /\ ~results[i].valid =>
                    ("error" \in DOMAIN results[i] /\ results[i].error # "")

C10_Witness ==
  /\ pc = "returned"
  /\ settled = <<2, 1>>
  /\ results[1].valid
  /\ ~results[2].valid
  /\ disk[jsonFiles[2]] = Malformed
  /\ readOk[2]

\* No value of a record carries the mark of a thrown TypeError.
NoTypeError(ts) ==
  \A i \in 1..Len(ts) :
    \A k \in DOMAIN ts[i] :
      \A j \in 1..Len(ts[i][k]) : ts[i][k][j] # "TypeError"

\* C12: for every Translation Set of records with a string language (empty,
\* without '-', or naming a built-in property) and every table, the call
\* returns an array that holds the input records, and nothing throws.
C12_ExpanderNeverFails ==
  /\ pc # "parsed" =>
       /\ Len(first.expandedTranslations) >= Len(translations)
       /\ NoTypeError(first.expandedTranslations)
  /\ pc = "expandedAgain" =>
       /\ Len(second.expandedTranslations) >= Len(first.expandedTranslations)
       /\ NoTypeError(second.expandedTranslations)

C12_Witness ==
  /\ pc = "expanded"
  /\ \E i, j \in 1..Len(translations) :
       /\ translations[i].language = <<>>
       /\ translations[j].language = valueOfX
  /\ \E k \in 1..Len(Synthesized) : first.sources[k].kind = "proto"
  /\ \E k \in 1..Len(Synthesized) : Synthesized[k].language = dashX

\* C11: whatever fails, when the validation run ends it has checked every
\* .json file of every target directory and has reported every failure.
C11_NeverAbortsEarly ==
  exit # -1 =>
    /\ \A d \in 1..TargetDirectories :
         \A i \in 1..Len(tree[d].listing) :
           EndsWith(tree[d].listing[i], dotJson) =>
             \E k \in 1..Len(allResults) :
               /\ allResults[k].dir = d
               /\ allResults[k].entry.file = tree[d].listing[i]
    /\ \A k \in 1..Len(allResults) :
         ~allResults[k].entry.valid =>
           \E j \in 1..Len(reported) : reported[j] = allResults[k]

\* C13: the files validateDirectory checks are the files loadJSONFiles
\* loads, the .json files other than package.json, and package.json gets
\* no entry.
C13_SameQualifyingFiles ==
  pc \in {"checking", "returned"} =>
    /\ jsonFiles = SelectSeq(listing, IsLoaderFile)
    /\ \A i \in 1..Len(results) :
         results[i] # Pending => results[i].file # packageJson

\* The events of one kind in the log, in the order they happened.
EventsOf(kind) == SelectSeq(log, LAMBDA e : e[1] = kind)

\* The positions of the log that hold an event of one kind.
PositionsOf(kind) == {i \in 1..Len(log) : log[i][1] = kind}

IsPrefix(s, t) == Len(s) <= Len(t) /\ \A i \in 1..Len(s) : s[i] = t[i]

\* C17: in a directory run no write begins before every qualifying file of
\* the listing has been read and parsed; the writes begin one at a time in
\* listing order, each ended before the next begins; a file's statistics
\* entry is added only after its write has ended; and a file changes only
\* once its write has begun.
C17_OrderOfIO ==
  LET qualifying == SelectSeq(listing, IsLoaderFile)
      writes == EventsOf("write")
      stats == EventsOf("stat")
  IN /\ \A i \in PositionsOf("write") :
          \A k \in 1..Len(qualifying) :
            \E j \in 1..(i - 1) : log[j] = <<"parsed", qualifying[k]>>
     /\ IsPrefix([k \in 1..Len(writes) |-> writes[k][2]], qualifying)
     /\ \A i, j \in PositionsOf("write") :
          i < j => \E k \in (i + 1)..(j - 1) : log[k] = <<"written", log[i][2]>>
     /\ \A i \in PositionsOf("stat") :
          \E k \in 1..(i - 1) : log[k] = <<"written", log[i][2]>>
     /\ Len(results) = Len(stats)
     /\ \A k \in 1..Len(results) : results[k].filename = stats[k][2]
     /\ \A f \in DOMAIN disk :
          disk[f] # disk0[f] => \E i \in PositionsOf("write") : log[i][2] = f

\* Two files have been written and recorded, and the run has returned.
C17_Witness ==
  /\ pc = "done"
  /\ Len(results) = 2
  /\ Len(EventsOf("written")) = 2
  /\ \E f \in DOMAIN disk : disk[f] # disk0[f]

\* C18: every statistics entry has expanded = original + added, added >= 0,
\* original = the number of records read from the file, and added = the
\* number of distinct variant codes of the table that the file lacked and
\* whose base code has an entry in the base index.
C18_Statistics ==
  \A k \in 1..Len(results) :
    LET r == results[k]
        read == JSONParse(disk0[r.filename])
        index == BuildBase(read, 1, <<>>)
        had == {read[i].language : i \in 1..Len(read)}
        codes == {Flatten(variations)[i] : i \in 1..Len(Flatten(variations))}
    IN /\ r.expanded = r.original + r.added
       /\ r.added >= 0
       /\ r.original = Len(read)
       /\ r.added = Cardinality({c \in codes :
                       c \notin had /\ SplitFirst(c) \in DOMAIN index})

\* C15: once a directory run has returned, every later run over the same
\* directory with the same table that returns reports added = 0 for every
\* file and leaves every file as the first such run left it.
C15_RerunStable ==
  (pc = "done" /\ stored.set /\ runs > stored.run) =>
    /\ \A k \in 1..Len(results) : results[k].added = 0
    /\ disk = stored.disk

\* A later run has returned over files to which the first run added records.
C15_Witness ==
  /\ pc = "done"
  /\ stored.set
  /\ runs > stored.run
  /\ Len(results) > 0
  /\ \E f \in DOMAIN disk :
       /\ Parses(stored.before[f])
       /\ Len(JSONParse(disk[f])) > Len(JSONParse(stored.before[f]))

\* C14: when processFile has returned for a file and processDirectory has
\* returned for the directory of that file, both started from the same
\* content with the same table, the file holds the same text in both and
\* the directory's statistics entry of the file equals the one processFile
\* returned.
C14_SameFileLogic ==
  (pc = "done" /\ single.pc = "returned") =>
    /\ single.file = disk[single.name]
    /\ \E k \in 1..Len(results) : results[k].filename = single.name
    /\ \A k \in 1..Len(results) :
         results[k].filename = single.name => results[k] = single.result

\* Both have returned, for a file given by a path into a folder, to which
\* records were added.
C14_Witness ==
  /\ pc = "done"
  /\ single.pc = "returned"
  /\ single.filePath # single.name
  /\ single.result.added > 0
  /\ single.file # disk0[single.name]

\* C16: for every set that the back-fill pass of the current expander
\* leaves as it is, and every table (of ordinary codes), the legacy and the
\* current expander return the same sequence of records.
C16_LegacyDiffersByBackfillOnly ==
  (/\ pc = "expanded"
   /\ "returned" \in DOMAIN legacy
   /\ OrdinaryTable
   /\ first.translations = translations) =>
    first.expandedTranslations = legacy.expandedTranslations

====
